---- MODULE Spec2Model ----
(***************************************************************************)
(* Model of app.py (Whisper transcription page).                           *)
(*                                                                         *)
(*  - seconds_to_srt_time (app.py 7-13) on IEEE-754 binary64 values.       *)
(*    Python floats are doubles; a double is modelled exactly as an        *)
(*    integer significand (a little-endian sequence of bits, since the     *)
(*    53-bit significand does not fit the integers of TLC) times a      *)
(*    power of two.  fmod, floor division by an integer and the            *)
(*    subtraction of the integer part are exact in binary64; the product   *)
(*    with 1000 is rounded to nearest, ties to even.                       *)
(*  - the SRT content expression of main (app.py 132-135).                 *)
(*  - main (app.py 15-150), one script run per user interaction, as a      *)
(*    sequence of steps over the process-wide model cache and the disk.    *)
(*                                                                         *)
(* Text is a sequence of one-character strings.                            *)
(***************************************************************************)
EXTENDS Integers, Sequences, FiniteSets, TLC

VARIABLES
    pc,               \* position of the current script run of main
    runs,             \* number of script runs started so far
    model_size,       \* st.sidebar.selectbox("Select Model Size")
    language_widget,  \* st.sidebar.radio("Language Mode"): the widget's value
    language_mode,    \* local variable language_mode (reassigned at line 90)
    translation_mode, \* st.sidebar.radio("Translation Mode")
    cache,            \* st.cache_resource store of load_model: entries [key, instance]
    loads,            \* per size, how often whisper.load_model was invoked
    model,            \* the instance main holds, 0 before loading
    audio_file,       \* TRUE when st.file_uploader returned a file
    temp_path,        \* name of this run's temporary file, 0 when none was created
    disk,             \* names of the temporary files that exist on disk
    task,             \* local variable task
    calls,            \* calls of model.transcribe made in this run
    outcome,          \* "none", "ok" (try block completed) or "stop" (st.stop() pending)
    text,             \* result["text"]
    segments,         \* result["segments"]
    log,              \* what this run has done and shown, in order
    downloads,        \* download buttons of this run: <<file_name, data>>
    fmt_in,           \* formatter harness: the seconds value, in units of 1/10000 s
    fmt_out,          \* formatter harness: the string returned
    srt_in,           \* SRT harness: the segments
    srt_out           \* SRT harness: the content built

vars == <<pc, runs, model_size, language_widget, language_mode, translation_mode, cache, loads, model,
          audio_file, temp_path, disk, task, calls, outcome, text, segments, log,
          downloads, fmt_in, fmt_out, srt_in, srt_out>>

(***************************************************************************)
(* Natural numbers of any size: little-endian sequences of limbs, each     *)
(* in 0..LimbBase-1, without leading zero limbs.                           *)
(***************************************************************************)
LimbBits == 15

LimbBase == 2 ^ LimbBits

RECURSIVE NatToBig(_)
NatToBig(n) ==
    IF n = 0 THEN <<>> ELSE <<n % LimbBase>> \o NatToBig(n \div LimbBase)

RECURSIVE BigToNat(_)
BigToNat(b) ==
    IF b = <<>> THEN 0 ELSE Head(b) + LimbBase * BigToNat(Tail(b))

RECURSIVE Trim(_)
Trim(b) ==
    IF b = <<>> \/ b[Len(b)] # 0 THEN b ELSE Trim(SubSeq(b, 1, Len(b) - 1))

\* b * c + carry, for small c and carry.
RECURSIVE MulSmall(_, _, _)
MulSmall(b, c, carry) ==
    IF b = <<>>
    THEN NatToBig(carry)
    ELSE LET x == Head(b) * c + carry
         IN  <<x % LimbBase>> \o MulSmall(Tail(b), c, x \div LimbBase)

\* Quotient and remainder of b by a small c.
RECURSIVE DivSmall(_, _)
DivSmall(b, c) ==
    IF b = <<>>
    THEN [q |-> <<>>, r |-> 0]
    ELSE LET hi == DivSmall(Tail(b), c)
             x  == LimbBase * hi.r + Head(b)
         IN  [q |-> Trim(<<x \div c>> \o hi.q), r |-> x % c]

RECURSIVE BigAdd(_, _, _)
BigAdd(a, b, carry) ==
    IF a = <<>> THEN MulSmall(b, 1, carry)
    ELSE IF b = <<>> THEN MulSmall(a, 1, carry)
    ELSE LET x == Head(a) + Head(b) + carry
         IN  <<x % LimbBase>> \o BigAdd(Tail(a), Tail(b), x \div LimbBase)

\* Bit i (from 0) of b.
Bit(b, i) ==
    IF i \div LimbBits >= Len(b) THEN 0
    ELSE (b[(i \div LimbBits) + 1] \div (2 ^ (i % LimbBits))) % 2

\* Number of significant bits of b.
BitLen(b) ==
    IF b = <<>> THEN 0
    ELSE (Len(b) - 1) * LimbBits
           + Cardinality({k \in 0..(LimbBits - 1) : 2 ^ k <= b[Len(b)]})

\* b * 2^k.
ShiftLeft(b, k) ==
    IF b = <<>> THEN <<>>
    ELSE [i \in 1..(k \div LimbBits) |-> 0] \o MulSmall(b, 2 ^ (k % LimbBits), 0)

\* b \div 2^k.
ShiftRight(b, k) ==
    LET q == k \div LimbBits
        r == k % LimbBits
    IN  IF q >= Len(b) THEN <<>>
        ELSE Trim([j \in 1..(Len(b) - q) |->
                     (b[j + q] \div (2 ^ r))
                       + (IF j + q < Len(b)
                          THEN (b[j + q + 1] % (2 ^ r)) * (2 ^ (LimbBits - r))
                          ELSE 0)])

\* b % 2^k.
LowBits(b, k) ==
    LET q == k \div LimbBits
        r == k % LimbBits
    IN  IF q >= Len(b) THEN b
        ELSE Trim(SubSeq(b, 1, q) \o <<b[q + 1] % (2 ^ r)>>)

(***************************************************************************)
(* binary64.  A finite non-negative double is [m |-> limbs, e |-> exponent]*)
(* with value m * 2^e and at most 53 significant bits.                     *)
(***************************************************************************)
SignificandBits == 53

\* The double nearest to b * 2^e (+ something below the last bit when sticky):
\* round to nearest, ties to even.
RoundToDouble(b, e, sticky) ==
    LET d == BitLen(b) - SignificandBits
    IN  IF d <= 0
        THEN [m |-> b, e |-> e]
        ELSE LET kept == ShiftRight(b, d)
                 half == Bit(b, d - 1)
                 rest == sticky \/ LowBits(b, d - 1) # <<>>
                 up   == half = 1 /\ (rest \/ Bit(kept, 0) = 1)
                 r    == IF up THEN MulSmall(kept, 1, 1) ELSE kept
             IN  IF BitLen(r) > SignificandBits
                 THEN [m |-> ShiftRight(r, 1), e |-> e + d + 1]
                 ELSE [m |-> r, e |-> e + d]

\* The double a decimal n / scale denotes (n a big natural), as float("1.001")
\* gives it: the correctly rounded quotient.
DecimalToDouble(n, scale) ==
    LET qr == DivSmall(ShiftLeft(n, 80), scale)
    IN  RoundToDouble(qr.q, -80, qr.r # 0)

\* int(x) of a non-negative double: the integer part.
FloatToInt(x) ==
    IF x.e >= 0
    THEN BigToNat(ShiftLeft(x.m, x.e))
    ELSE BigToNat(ShiftRight(x.m, -x.e))

\* x - int(x), which binary64 computes exactly: the bits below the binary point.
FloatFrac(x) ==
    IF x.e >= 0 THEN [m |-> <<>>, e |-> 0]
    ELSE [m |-> LowBits(x.m, -x.e), e |-> x.e]

\* x // w for an integer w > 0: floor(x / w), exact in binary64 for the values here.
FloatFloorDiv(x, w) ==
    FloatToInt(x) \div w

\* x % w for an integer w > 0 (fmod, exact): the integer part reduced modulo w,
\* the fraction kept.
FloatMod(x, w) ==
    LET i == FloatToInt(x) % w
    IN  IF x.e >= 0 THEN [m |-> NatToBig(i), e |-> 0]
        ELSE [m |-> BigAdd(FloatFrac(x).m, ShiftLeft(NatToBig(i), -x.e), 0), e |-> x.e]

\* x * c for an integer c: the exact product rounded to the nearest double.
FloatMulInt(x, c) ==
    RoundToDouble(MulSmall(x.m, c, 0), x.e, FALSE)

(***************************************************************************)
(* Text.                                                                   *)
(***************************************************************************)
Digit == <<"0", "1", "2", "3", "4", "5", "6", "7", "8", "9">>

RECURSIVE NatToStr(_)
NatToStr(n) ==
    IF n < 10 THEN <<Digit[n + 1]>> ELSE NatToStr(n \div 10) \o <<Digit[(n % 10) + 1]>>

\* f"{n:0w}": decimal, zero-padded to at least w characters.
ZeroPad(n, w) ==
    LET s == NatToStr(n)
    IN  IF Len(s) >= w THEN s ELSE [i \in 1..(w - Len(s)) |-> "0"] \o s

(***************************************************************************)
(* seconds_to_srt_time, app.py 7-13.                                       *)
(***************************************************************************)
srt_hours(seconds) ==
    FloatFloorDiv(seconds, 3600)

srt_minutes(seconds) ==
    FloatFloorDiv(FloatMod(seconds, 3600), 60)

srt_secs(seconds) ==
    FloatToInt(FloatMod(seconds, 60))

srt_millis(seconds) ==
    FloatToInt(FloatMulInt(FloatFrac(seconds), 1000))

seconds_to_srt_time(seconds) ==
    ZeroPad(srt_hours(seconds), 2) \o <<":">> \o ZeroPad(srt_minutes(seconds), 2)
        \o <<":">> \o ZeroPad(srt_secs(seconds), 2) \o <<",">>
        \o ZeroPad(srt_millis(seconds), 3)

(***************************************************************************)
(* The SRT content expression of main, app.py 132-135.                     *)
(***************************************************************************)
NL == <<"\n">>

Arrow == <<" ", "-", "-", ">", " ">>

\* The characters str.strip() removes (those that occur in the model's texts).
Whitespace == {" ", "\t", "\n", "\r"}

RECURSIVE LStrip(_)
LStrip(s) ==
    IF s # <<>> /\ Head(s) \in Whitespace THEN LStrip(Tail(s)) ELSE s

RECURSIVE RStrip(_)
RStrip(s) ==
    IF s # <<>> /\ s[Len(s)] \in Whitespace THEN RStrip(SubSeq(s, 1, Len(s) - 1)) ELSE s

\* Variant: only the leading white space is removed.
StripLeadingOnly(s) ==
    LStrip(s)

\* str.strip()
Strip(s) ==
    RStrip(LStrip(s))

\* sep.join(items)
RECURSIVE Join(_, _)
Join(sep, items) ==
    IF items = <<>> THEN <<>>
    ELSE IF Len(items) = 1 THEN items[1]
    ELSE items[1] \o sep \o Join(sep, Tail(items))

\* A seconds value is written as the decimal whole + frac / 10000; the program
\* holds the double of that decimal.
SecondsOf(in) ==
    DecimalToDouble(MulSmall(NatToBig(in.whole), 10000, in.frac), 10000)

\* enumerate(segments, 1): the number of the first entry.
SrtFirstIndex == 1

\* f"{i}\n{seconds_to_srt_time(seg['start'])} --> {seconds_to_srt_time(seg['end'])}\n{seg['text'].strip()}\n"
SrtEntry(i, seg) ==
    NatToStr(i) \o NL
        \o seconds_to_srt_time(SecondsOf(seg.start)) \o Arrow
        \o seconds_to_srt_time(SecondsOf(seg.end)) \o NL
        \o Strip(seg.text) \o NL

\* The separator of the entries, "\n".join(...)
SrtSeparator ==
    NL

SrtContent(segs) ==
    Join(SrtSeparator, [k \in 1..Len(segs) |-> SrtEntry(k - 1 + SrtFirstIndex, segs[k])])

(***************************************************************************)
(* The main page before the first script run.                              *)
(***************************************************************************)
ModelSizes == {"tiny", "base", "small", "medium", "large"}

LanguageModes == {"Auto-detect", "Force Swedish"}

TranslationModes == {"Transcribe only", "Translate to English", "Translate to Swedish"}

MainFresh ==
    /\ runs = 0
    /\ model_size = "none"
    /\ language_widget = "none"
    /\ language_mode = "none"
    /\ translation_mode = "none"
    /\ cache = {}
    /\ loads = [s \in ModelSizes |-> 0]
    /\ model = 0
    /\ audio_file = FALSE
    /\ temp_path = 0
    /\ disk = {}
    /\ task = "none"
    /\ calls = <<>>
    /\ outcome = "none"
    /\ text = <<>>
    /\ segments = <<>>
    /\ log = <<>>
    /\ downloads = <<>>

restVars == <<runs, model_size, language_widget, language_mode, translation_mode, cache, loads, model,
              audio_file, temp_path, disk, task, calls, outcome, text, segments, log,
              downloads>>

(***************************************************************************)
(* Harness of the formatter: a seconds value is drawn and                  *)
(* seconds_to_srt_time is applied to it.                                   *)
(***************************************************************************)
MaxFmtMillis == 24

FmtWholes == {0, 1, 2, 59, 60, 3599, 3600, 3725, 86399, 360000, 362439}

FmtFracs == {10 * k : k \in 0..MaxFmtMillis} \cup {4567, 5000, 5700, 9990, 9999}

FmtInputs == [whole : FmtWholes, frac : FmtFracs]

InitFmt ==
    /\ pc = "fmt"
    /\ MainFresh
    /\ fmt_in \in FmtInputs
    /\ fmt_out = <<>>
    /\ srt_in = <<>>
    /\ srt_out = <<>>

FormatTime ==
    /\ pc = "fmt"
    /\ pc' = "fmt_done"
    /\ fmt_out' = seconds_to_srt_time(SecondsOf(fmt_in))
    /\ UNCHANGED <<fmt_in, srt_in, srt_out>>
    /\ UNCHANGED restVars

NextFmt ==
    FormatTime

SpecFmt ==
    InitFmt /\ [][NextFmt]_vars

(***************************************************************************)
(* Harness of the SRT content: segments are drawn and the content built.   *)
(***************************************************************************)
MaxSegs == 2

SrtSpans == {<<[whole |-> 0, frac |-> 0], [whole |-> 1, frac |-> 5000]>>,
             <<[whole |-> 1, frac |-> 5000], [whole |-> 3, frac |-> 0]>>,
             <<[whole |-> 3, frac |-> 10], [whole |-> 3725, frac |-> 4567]>>}

SrtTexts == {<<"H", "e", "j">>,
             <<"v", "ä", "r", "l", "d", "e", "n">>,
             <<" ", "H", "e", "j", " ", "d", "u", "\n">>,
             <<"\t", " ">>}

SrtSegments == {[start |-> sp[1], end |-> sp[2], text |-> t] : sp \in SrtSpans, t \in SrtTexts}

SegmentLists == UNION {[1..n -> SrtSegments] : n \in 0..MaxSegs}

InitSrt ==
    /\ pc = "srt"
    /\ MainFresh
    /\ fmt_in = [whole |-> 0, frac |-> 0]
    /\ fmt_out = <<>>
    /\ srt_in \in SegmentLists
    /\ srt_out = <<>>

BuildSrt ==
    /\ pc = "srt"
    /\ pc' = "srt_done"
    /\ srt_out' = SrtContent(srt_in)
    /\ UNCHANGED <<fmt_in, fmt_out, srt_in>>
    /\ UNCHANGED restVars

NextSrt ==
    BuildSrt

SpecSrt ==
    InitSrt /\ [][NextSrt]_vars


(***************************************************************************)
(* main, app.py 15-150: one script run per user interaction.               *)
(***************************************************************************)
MaxRuns == 3

\* What model.transcribe may return.
HejText == <<"H", "e", "j", " ", "v", "ä", "r", "l", "d", "e", "n">>

Results ==
    {[text |-> HejText,
      segments |-> <<[start |-> [whole |-> 0, frac |-> 0],
                      end |-> [whole |-> 1, frac |-> 5000],
                      text |-> <<"H", "e", "j">>],
                     [start |-> [whole |-> 1, frac |-> 5000],
                      end |-> [whole |-> 3, frac |-> 0],
                      text |-> <<" ", "v", "ä", "r", "l", "d", "e", "n">>]>>],
     [text |-> <<" ", "H", "e", "j">>,
      segments |-> <<[start |-> [whole |-> 3725, frac |-> 4567],
                      end |-> [whole |-> 3726, frac |-> 10],
                      text |-> <<" ", "H", "e", "j">>]>>]}

\* Variant: the cache never finds an entry.
CacheLookupAlwaysMiss(store, key) ==
    {}

\* st.cache_resource: the entry cached for the argument, if any.
CacheLookup(store, key) ==
    {c \in store : c.key = key}

\* st.cache_resource on a miss: the value computed is stored under the argument;
\* no max_entries and no ttl are given, so nothing is dropped.
CacheStore(store, key, instance) ==
    store \cup {[key |-> key, instance |-> instance]}

\* A name no file has had (NamedTemporaryFile, delete=False).
NewTempName ==
    runs

\* app.py 84-90: the task of the translation mode.
TaskOf(mode) ==
    IF mode = "Transcribe only" THEN "transcribe" ELSE "translate"

\* Variant: line 90 missing, the language mode stays what the widget says.
LanguageModeKept(mode, current) ==
    current

\* app.py 88-90: language_mode after the translation mode was looked at.
LanguageModeOf(mode, current) ==
    IF mode = "Translate to Swedish" THEN "Force Swedish" ELSE current

\* app.py 95: the language argument.
LanguageOf(mode) ==
    IF mode = "Force Swedish" THEN "sv" ELSE "None"

\* Variant: the failed call is tried again.
RetryAfterTranscribeError ==
    "try"

\* Variant: st.stop() ends the run at once, the cleanup is skipped.
StopSkipsFinally ==
    "done"

\* app.py 105-107: where control goes from the except clause. st.stop() raises
\* the script-stop signal, so the finally clause runs next.
AfterTranscribeError ==
    "finally"

\* Variant: st.stop() missing, the run goes on after the error.
AfterFinallyNoStop(outc, unlink_failed) ==
    "render"

\* Variant: an unlink error ends the run.
AfterFinallyAbortOnUnlinkError(outc, unlink_failed) ==
    IF outc = "stop" \/ unlink_failed THEN "done" ELSE "render"

\* app.py 108-115: where control goes from the finally clause: out of main when
\* st.stop() is pending, on to line 115 otherwise; an unlink error was handled
\* inside the clause and changes nothing.
AfterFinally(outc, unlink_failed) ==
    IF outc = "stop" THEN "done" ELSE "render"

\* app.py 137-150: the download buttons.
DownloadButtons(txt, srt) ==
    <<[file_name |-> "transcription.txt", data |-> txt],
      [file_name |-> "transcription.srt", data |-> srt]>>

Init ==
    /\ pc = "idle"
    /\ MainFresh
    /\ fmt_in = [whole |-> 0, frac |-> 0]
    /\ fmt_out = <<>>
    /\ srt_in = <<>>
    /\ srt_out = <<>>

harnessVars == <<fmt_in, fmt_out, srt_in, srt_out>>

\* app.py 15-52: a script run starts and reads the sidebar widgets.
Start ==
    /\ pc \in {"idle", "done"}
    /\ runs < MaxRuns
    /\ runs' = runs + 1
    /\ model_size' \in ModelSizes
    /\ language_widget' \in LanguageModes
    /\ language_mode' = language_widget'
    /\ translation_mode' \in TranslationModes
    /\ model' = 0
    /\ audio_file' = FALSE
    /\ temp_path' = 0
    /\ task' = "none"
    /\ calls' = <<>>
    /\ outcome' = "none"
    /\ text' = <<>>
    /\ segments' = <<>>
    /\ log' = <<>>
    /\ downloads' = <<>>
    /\ pc' = "load"
    /\ UNCHANGED <<cache, loads, disk>>
    /\ UNCHANGED harnessVars

\* app.py 54-61: load_model(model_size) through st.cache_resource.
LoadModel ==
    /\ pc = "load"
    /\ LET hit == CacheLookup(cache, model_size)
           new == 1 + Cardinality(cache)
       IN  IF hit # {}
           THEN /\ model' = (CHOOSE c \in hit : TRUE).instance
                /\ UNCHANGED <<cache, loads>>
           ELSE /\ loads' = [loads EXCEPT ![model_size] = @ + 1]
                /\ cache' = CacheStore(cache, model_size, new)
                /\ model' = new
    /\ pc' = "upload"
    /\ UNCHANGED <<runs, model_size, language_widget, language_mode, translation_mode,
                   audio_file, temp_path, disk, task, calls, outcome, text, segments,
                   log, downloads>>
    /\ UNCHANGED harnessVars

\* app.py 64-70: no file is uploaded; main returns.
NoUpload ==
    /\ pc = "upload"
    /\ audio_file' = FALSE
    /\ pc' = "done"
    /\ UNCHANGED <<runs, model_size, language_widget, language_mode, translation_mode,
                   cache, loads, model, temp_path, disk, task, calls, outcome, text,
                   segments, log, downloads>>
    /\ UNCHANGED harnessVars

\* app.py 64-78: a file is uploaded, written to a temporary file and played.
SaveUpload ==
    /\ pc = "upload"
    /\ audio_file' = TRUE
    /\ temp_path' = NewTempName
    /\ disk' = disk \cup {NewTempName}
    /\ log' = log \o <<"write_temp", "audio">>
    /\ pc' = "button"
    /\ UNCHANGED <<runs, model_size, language_widget, language_mode, translation_mode,
                   cache, loads, model, task, calls, outcome, text, segments, downloads>>
    /\ UNCHANGED harnessVars

\* app.py 80: the button was not pressed; main returns.
ButtonNotPressed ==
    /\ pc = "button"
    /\ pc' = "done"
    /\ UNCHANGED <<runs, model_size, language_widget, language_mode, translation_mode,
                   cache, loads, model, audio_file, temp_path, disk, task, calls,
                   outcome, text, segments, log, downloads>>
    /\ UNCHANGED harnessVars

\* app.py 80: the button was pressed.
ButtonPressed ==
    /\ pc = "button"
    /\ log' = log \o <<"button_pressed">>
    /\ pc' = "try"
    /\ UNCHANGED <<runs, model_size, language_widget, language_mode, translation_mode,
                   cache, loads, model, audio_file, temp_path, disk, task, calls,
                   outcome, text, segments, downloads>>
    /\ UNCHANGED harnessVars

\* The call of app.py 93-97.
TranscribeCall ==
    [path |-> temp_path,
     language |-> LanguageOf(LanguageModeOf(translation_mode, language_mode)),
     task |-> TaskOf(translation_mode),
     file_exists |-> temp_path \in disk]

\* app.py 82-104: model.transcribe returns.
TranscribeOk ==
    /\ pc = "try"
    /\ task' = TaskOf(translation_mode)
    /\ language_mode' = LanguageModeOf(translation_mode, language_mode)
    /\ calls' = Append(calls, TranscribeCall)
    /\ \E r \in Results :
          /\ text' = r.text
          /\ segments' = r.segments
    /\ log' = log \o <<"transcribe", "detected_language">>
    /\ outcome' = "ok"
    /\ pc' = "finally"
    /\ UNCHANGED <<runs, model_size, language_widget, translation_mode, cache, loads,
                   model, audio_file, temp_path, disk, downloads>>
    /\ UNCHANGED harnessVars

\* app.py 82-97, 105-107: model.transcribe raises; the error is shown and
\* st.stop() is called.
TranscribeRaises ==
    /\ pc = "try"
    /\ task' = TaskOf(translation_mode)
    /\ language_mode' = LanguageModeOf(translation_mode, language_mode)
    /\ calls' = Append(calls, TranscribeCall)
    /\ log' = log \o <<"transcribe", "error:Transcription failed">>
    /\ outcome' = "stop"
    /\ pc' = AfterTranscribeError
    /\ UNCHANGED <<runs, model_size, language_widget, translation_mode, cache, loads,
                   model, audio_file, temp_path, disk, text, segments, downloads>>
    /\ UNCHANGED harnessVars

\* app.py 108-111: os.unlink(temp_path) succeeds.
UnlinkOk ==
    /\ pc = "finally"
    /\ disk' = disk \ {temp_path}
    /\ log' = log \o <<"unlink">>
    /\ pc' = AfterFinally(outcome, FALSE)
    /\ UNCHANGED <<runs, model_size, language_widget, language_mode, translation_mode,
                   cache, loads, model, audio_file, temp_path, task, calls, outcome,
                   text, segments, downloads>>
    /\ UNCHANGED harnessVars

\* app.py 108-113: os.unlink(temp_path) raises; the error is shown.
UnlinkFails ==
    /\ pc = "finally"
    /\ log' = log \o <<"unlink", "error:Error cleaning temporary file">>
    /\ pc' = AfterFinally(outcome, TRUE)
    /\ UNCHANGED <<runs, model_size, language_widget, language_mode, translation_mode,
                   cache, loads, model, audio_file, temp_path, disk, task, calls,
                   outcome, text, segments, downloads>>
    /\ UNCHANGED harnessVars

\* app.py 115-150: the success message, the results and the download buttons.
Render ==
    /\ pc = "render"
    /\ downloads' = DownloadButtons(text, SrtContent(segments))
    /\ log' = log \o <<"success:Transcription Complete", "text_area", "segments">>
                  \o [i \in 1..Len(downloads') |-> "download_button"]
    /\ pc' = "done"
    /\ UNCHANGED <<runs, model_size, language_widget, language_mode, translation_mode,
                   cache, loads, model, audio_file, temp_path, disk, task, calls,
                   outcome, text, segments>>
    /\ UNCHANGED harnessVars

Next ==
    \/ Start
    \/ LoadModel
    \/ NoUpload
    \/ SaveUpload
    \/ ButtonNotPressed
    \/ ButtonPressed
    \/ TranscribeOk
    \/ TranscribeRaises
    \/ UnlinkOk
    \/ UnlinkFails
    \/ Render

Spec ==
    Init /\ [][Next]_vars


(***************************************************************************)
(* Properties.                                                             *)
(***************************************************************************)
Count(seq, e) ==
    Cardinality({i \in 1..Len(seq) : seq[i] = e})

Has(seq, e) ==
    \E i \in 1..Len(seq) : seq[i] = e

Before(seq, a, b) ==
    \A i, j \in 1..Len(seq) : seq[i] = a /\ seq[j] = b => i < j

Shown == {"success:Transcription Complete", "text_area", "segments", "download_button"}

FileNames == {downloads[i].file_name : i \in 1..Len(downloads)}

DataOf(name) ==
    {downloads[i].data : i \in {j \in 1..Len(downloads) : downloads[j].file_name = name}}

\* C1: once a script run that wrote the upload to a temporary file is over,
\* that file is gone: every temporary file on disk belongs to the run still
\* in progress. (Stated as claimed; the program violates it.)
C1_TempFileGone ==
    \A f \in disk : f = temp_path /\ pc # "done"

\* C2: with Translation Mode "Translate to Swedish", transcribe is called with
\* task "translate" and language "sv", whatever the Language Mode widget says;
\* and once the button was pressed that call has been made.
C2_TranslateToSwedish ==
    translation_mode = "Translate to Swedish" =>
        /\ \A i \in 1..Len(calls) : calls[i].task = "translate" /\ calls[i].language = "sv"
        /\ (Has(log, "button_pressed") /\ pc # "try" => Len(calls) = 1)

C2_Witness ==
    /\ translation_mode = "Translate to Swedish"
    /\ language_widget = "Auto-detect"
    /\ Len(calls) = 1
    /\ calls[1].language = "sv"
    /\ calls[1].task = "translate"

\* C3: when transcribe raised, exactly one "Transcription failed" error is
\* shown, the run shows no success message, no text, no segments and no
\* download button, it ends right after the cleanup, and a further script run
\* can start.
C3_FailureHalts ==
    outcome = "stop" =>
        /\ Count(log, "error:Transcription failed") = 1
        /\ \A e \in Shown : ~Has(log, e)
        /\ downloads = <<>>
        /\ pc \in {"finally", "done"}
        /\ (pc = "done" /\ runs < MaxRuns => ENABLED Start)

C3_Witness ==
    /\ outcome = "stop"
    /\ pc = "done"
    /\ runs = 2
    /\ Has(log, "unlink")
    /\ Count(log, "error:Transcription failed") = 1

\* C4: when deleting the temporary file fails after a transcription that
\* succeeded, the failure is shown as its own message (and no "Transcription
\* failed"), and the run goes on to show the success message, the text, the
\* segments and its download buttons.
C4_CleanupFailureGoesOn ==
    outcome = "ok" /\ Has(log, "error:Error cleaning temporary file") =>
        /\ Count(log, "error:Error cleaning temporary file") = 1
        /\ ~Has(log, "error:Transcription failed")
        /\ pc \in {"render", "done"}
        /\ (pc = "done" =>
              /\ \A e \in Shown : Has(log, e)
              /\ Before(log, "error:Error cleaning temporary file",
                        "success:Transcription Complete")
              /\ DataOf("transcription.txt") = {text}
              /\ DataOf("transcription.srt") = {SrtContent(segments)})

C4_Witness ==
    /\ outcome = "ok"
    /\ Has(log, "error:Error cleaning temporary file")
    /\ pc = "done"
    /\ Count(log, "download_button") = 2
    /\ temp_path \in disk

\* C7: after a successful transcription three downloads are offered:
\* transcription.txt with the full text, transcription.srt with the subtitle
\* content and transcription.docx. (Stated as claimed; the program violates it.)
C7_ThreeDownloads ==
    pc = "done" /\ Has(log, "success:Transcription Complete") =>
        /\ FileNames = {"transcription.txt", "transcription.srt", "transcription.docx"}
        /\ DataOf("transcription.txt") = {text}
        /\ DataOf("transcription.srt") = {SrtContent(segments)}

\* In every state: one entry per size, one load per cached size, and the run
\* holds the cached instance of its size.
C8_CacheState ==
    /\ \A c, d \in cache : c.key = d.key => c = d
    /\ \A s \in ModelSizes : loads[s] <= 1 /\ (loads[s] = 1 <=> \E c \in cache : c.key = s)
    /\ (pc \notin {"idle", "load"} => [key |-> model_size, instance |-> model] \in cache)

\* In every step: entries are only added, and a size loaded before is not
\* loaded again.
C8_CacheStep ==
    /\ cache \subseteq cache'
    /\ (pc = "load" /\ loads[model_size] > 0 => loads' = loads /\ cache' = cache)

\* C8: the model cache holds at most one instance per model size;
\* whisper.load_model is invoked for a size only in the first run that selects
\* it; a later run with the same size gets the cached instance without
\* loading; no entry of the cache is ever dropped or replaced.
C8_ModelCache ==
    [](C8_CacheState) /\ [][C8_CacheStep]_vars

C8_Witness ==
    /\ runs = 3
    /\ pc = "upload"
    /\ Cardinality(cache) = 2
    /\ loads[model_size] = 1
    /\ model = 1

\* C9: in a script run transcribe is called at most once: once when the button
\* was pressed (which needs an uploaded file), never otherwise; a failing call
\* is reported once and not repeated.
C9_AtMostOneCall ==
    /\ Len(calls) <= 1
    /\ Count(log, "transcribe") = Len(calls)
    /\ (Has(log, "button_pressed") /\ pc # "try" => Len(calls) = 1 /\ audio_file)
    /\ (~Has(log, "button_pressed") => Len(calls) = 0)
    /\ (outcome = "stop" => Len(calls) = 1 /\ Count(log, "error:Transcription failed") = 1)
    /\ (outcome # "stop" => ~Has(log, "error:Transcription failed"))

C9_Witness ==
    /\ pc = "done"
    /\ outcome = "stop"
    /\ Len(calls) = 1
    /\ Count(log, "transcribe") = 1

\* C10: in a run where the button was pressed, the temporary file is written
\* before transcribe is called and exists at the call; the deletion is
\* attempted once, after transcribe returned or raised, on both paths; nothing
\* of the result (success message, text, segments, download buttons) is shown
\* before the deletion attempt.
C10_Order ==
    /\ \A i \in 1..Len(calls) : calls[i].file_exists /\ calls[i].path = temp_path
    /\ Before(log, "write_temp", "transcribe")
    /\ (Has(log, "transcribe") => Has(log, "write_temp"))
    /\ Count(log, "unlink") <= 1
    /\ Before(log, "transcribe", "unlink")
    /\ (Has(log, "unlink") => Has(log, "transcribe"))
    /\ (Has(log, "button_pressed") /\ pc \in {"render", "done"} => Count(log, "unlink") = 1)
    /\ \A e \in Shown : Before(log, "unlink", e) /\ (Has(log, e) => Has(log, "unlink"))

C10_Witness ==
    /\ pc = "done"
    /\ outcome = "ok"
    /\ calls[1].file_exists
    /\ log = <<"write_temp", "audio", "button_pressed", "transcribe", "detected_language",
               "unlink", "success:Transcription Complete", "text_area", "segments",
               "download_button", "download_button">>

(***************************************************************************)
(* Properties of the SRT content (under SpecSrt).                          *)
(***************************************************************************)
\* The text without the white space at its ends.
C5_Trimmed(t) ==
    LET idx == {i \in 1..Len(t) : t[i] \notin Whitespace}
    IN  IF idx = {} THEN <<>>
        ELSE SubSeq(t, CHOOSE i \in idx : \A j \in idx : i <= j,
                       CHOOSE i \in idx : \A j \in idx : i >= j)

\* Entries k..N of the content: the number k, the time line, the trimmed text,
\* a blank line after every entry but the last.
RECURSIVE C5_From(_, _)
C5_From(segs, k) ==
    IF k > Len(segs) THEN <<>>
    ELSE NatToStr(k) \o <<"\n">>
           \o seconds_to_srt_time(SecondsOf(segs[k].start))
           \o <<" ", "-", "-", ">", " ">>
           \o seconds_to_srt_time(SecondsOf(segs[k].end)) \o <<"\n">>
           \o C5_Trimmed(segs[k].text) \o <<"\n">>
           \o (IF k < Len(segs) THEN <<"\n">> ELSE <<>>)
           \o C5_From(segs, k + 1)

\* C5: for N >= 1 segments the SRT content is exactly the N entries in segment
\* order, entry k being the line k, the line "<start> --> <end>" and the trimmed
\* text, with one blank line between entries and a single newline at the end.
C5_SrtContent ==
    pc = "srt_done" /\ Len(srt_in) >= 1 =>
        /\ srt_out = C5_From(srt_in, 1)
        /\ srt_out[Len(srt_out)] = "\n"

C5_Example ==
    <<"1", "\n", "0", "0", ":", "0", "0", ":", "0", "0", ",", "0", "0", "0",
      " ", "-", "-", ">", " ", "0", "0", ":", "0", "0", ":", "0", "1", ",", "5", "0", "0", "\n",
      "H", "e", "j", "\n", "\n",
      "2", "\n", "0", "0", ":", "0", "0", ":", "0", "1", ",", "5", "0", "0",
      " ", "-", "-", ">", " ", "0", "0", ":", "0", "0", ":", "0", "3", ",", "0", "0", "0", "\n",
      "v", "ä", "r", "l", "d", "e", "n", "\n">>

C5_Witness ==
    /\ pc = "srt_done"
    /\ Len(srt_in) = 2
    /\ srt_in[1].text = <<"H", "e", "j">>
    /\ srt_in[2].text = <<"v", "ä", "r", "l", "d", "e", "n">>
    /\ srt_out = C5_Example

(***************************************************************************)
(* Properties of the formatter (under SpecFmt).                            *)
(***************************************************************************)
IsDigits(str) ==
    \A i \in 1..Len(str) : \E d \in 1..10 : Digit[d] = str[i]

RECURSIVE StrToNat(_)
StrToNat(str) ==
    IF str = <<>> THEN 0
    ELSE 10 * StrToNat(SubSeq(str, 1, Len(str) - 1))
           + ((CHOOSE d \in 1..10 : Digit[d] = str[Len(str)]) - 1)

\* The fields of a string of the form H..H:MM:SS,mmm.
FieldsOf(str) ==
    LET n == Len(str)
    IN  [h |-> SubSeq(str, 1, n - 10), m |-> SubSeq(str, n - 8, n - 7),
         s |-> SubSeq(str, n - 5, n - 4), ms |-> SubSeq(str, n - 2, n)]

WellFormed(str) ==
    LET n == Len(str)
        f == FieldsOf(str)
    IN  /\ n >= 12
        /\ str[n - 9] = ":" /\ str[n - 6] = ":" /\ str[n - 3] = ","
        /\ IsDigits(f.h) /\ IsDigits(f.m) /\ IsDigits(f.s) /\ IsDigits(f.ms)

\* The value a well-formed string denotes, in milliseconds.
MillisOf(str) ==
    LET f == FieldsOf(str)
    IN  StrToNat(f.h) * 3600000 + StrToNat(f.m) * 60000 + StrToNat(f.s) * 1000
          + StrToNat(f.ms)

\* C6: for a seconds value s given to the millisecond, the string returned is
\* H..H:MM:SS,mmm with M and S at most 59, and it denotes s truncated to the
\* millisecond. (Stated as claimed; the program violates it.)
C6_TruncatedMillis ==
    pc = "fmt_done" /\ fmt_in.frac % 10 = 0 =>
        /\ WellFormed(fmt_out)
        /\ StrToNat(FieldsOf(fmt_out).m) <= 59
        /\ StrToNat(FieldsOf(fmt_out).s) <= 59
        /\ MillisOf(fmt_out) = fmt_in.whole * 1000 + (fmt_in.frac \div 10)

====
